---- MODULE Spec2Model ----
(***************************************************************************)
(* Model of the collaborative whiteboard component                         *)
(* (src/src/components/Whiteboard.tsx).  Every replica is one mounted      *)
(* Whiteboard component: its React state, its drawingHistory ref, its      *)
(* canvas, and its subscription to the 'whiteboard-room' channel.  The     *)
(* channel is the pub/sub transport the component calls into.              *)
(***************************************************************************)
EXTENDS Integers, Sequences, FiniteSets, TLC

(* ---------------------------- bounds ----------------------------------- *)
MaxPoints == 2        \* pointer samples of one gesture
MaxGestures == 1      \* startDrawing events accepted in a short session
MaxClears == 1        \* handleClear events in the whole system
MaxUserChanges == 1   \* changes of the user prop in the whole system
MaxClock == 1         \* readings Date.now() can take are 0..MaxClock
MaxToolbar == 1       \* tool / colour selections in the whole system
MaxForeign == 2       \* messages published by the session outside Replicas

(* ---------------------------- domains ---------------------------------- *)
Replicas == {"A", "B"}
Users == {"ua", "ub", "uc"}
\* every session publishing on the channel: the replicas and one more session
Outside == "X"
Senders == Replicas \cup {Outside}
Points == {[x |-> 0, y |-> 0], [x |-> 10, y |-> 10]}
Tools == {"pen", "eraser"}
Palette == {"#000000", "#ff0000"}
InitialSize == 3

VARIABLES
  userId,          \* the user.id prop of each replica
  isConnected,     \* useState(false)
  onlineUsers,     \* useState([])
  isDrawing,       \* useState(false)
  tool,            \* useState('pen')
  color,           \* useState('#000000')
  currentStroke,   \* useState([])
  drawingHistory,  \* useRef([])
  surface,         \* the canvas raster: strokes composited since the last fill
  ctxPath,         \* the current path of the canvas 2d context
  subscription,    \* state of the subscribe() of the current effect
  pending,         \* publish() calls whose promise is not settled yet
  chan,            \* chan[s][r]: messages of sender s on their way to r
  now,             \* Date.now()
  echoes,          \* whether the channel hands a message to its own sender too
  gesture,         \* pointer samples since the last accepted startDrawing
  pressed,         \* a pointer press not yet followed by a release or leave
  heard,           \* the outside session's messages a replica has handled
  torn,            \* the subscribe() of each cleaned-up effect, oldest first
  unsubscribes,    \* channel.unsubscribe() calls so far
  gesturesLeft,    \* startDrawing events the session still accepts
  nClears, nUserChanges, nToolbar, nForeign

effect == <<torn, unsubscribes>>
conn == <<userId, isConnected, subscription, effect>>
ui == <<tool, color, onlineUsers>>
pen == <<isDrawing, currentStroke, gesture, pressed>>
board == <<drawingHistory, surface, ctxPath>>
wire == <<pending, chan, heard>>
env == <<now, echoes>>
budget == <<gesturesLeft, nClears, nUserChanges, nToolbar, nForeign>>
vars == <<conn, ui, pen, board, wire, env, budget>>

(* ------------------------- sequence helpers ---------------------------- *)
Last(s) == s[Len(s)]
Front(s) == SubSeq(s, 1, Len(s) - 1)
RemoveAt(s, i) == SubSeq(s, 1, i - 1) \o SubSeq(s, i + 1, Len(s))
IsPrefix(s, t) == Len(s) <= Len(t) /\ SubSeq(t, 1, Len(s)) = s

(* ------------------------------ canvas --------------------------------- *)
Blank == <<>>

\* Zero-length segments of a path paint nothing.
RECURSIVE Prune(_)
Prune(path) ==
  IF Len(path) < 2 THEN path
  ELSE IF path[1] = path[2] THEN Prune(Tail(path))
       ELSE <<path[1]>> \o Prune(Tail(path))

\* globalCompositeOperation / strokeStyle / lineWidth chosen for a stroke kind
PenStyle(kind, c, sz) ==
  IF kind = "draw"
    THEN [op |-> "source-over", strokeStyle |-> c, lineWidth |-> sz]
    ELSE [op |-> "destination-out", strokeStyle |-> "any", lineWidth |-> sz * 2]

\* ctx.stroke(): composite the current path onto the raster.  Stroking an
\* extension of the path that was stroked last, in the same style, paints
\* over it.
CtxStroke(surf, style, path) ==
  LET p == Prune(path)
      e == [op |-> style.op, strokeStyle |-> style.strokeStyle,
            lineWidth |-> style.lineWidth, path |-> p]
  IN IF Len(p) < 2 THEN surf
     ELSE IF surf # <<>> /\ Last(surf).op = e.op
              /\ Last(surf).strokeStyle = e.strokeStyle
              /\ Last(surf).lineWidth = e.lineWidth
              /\ IsPrefix(Last(surf).path, p)
            THEN [surf EXCEPT ![Len(surf)] = e]
            ELSE Append(surf, e)

\* drawRemoteStroke(data): the canvas state <<raster, path>> it leaves
RemotePath(data) == <<data.points[1]>> \o data.points

\* variant of drawRemoteStroke that strokes a stroke without points as well
drawRemoteStrokeUnchecked(cv, data) ==
  IF Len(data.points) = 0
    THEN <<Append(cv[1], [op |-> PenStyle(data.type, data.color, data.size).op,
                          strokeStyle |-> data.color, lineWidth |-> data.size,
                          path |-> <<>>]), <<>> >>
  ELSE <<CtxStroke(cv[1], PenStyle(data.type, data.color, data.size), RemotePath(data)),
         RemotePath(data)>>

drawRemoteStroke(cv, data) ==
  IF Len(data.points) = 0 THEN cv
  ELSE <<CtxStroke(cv[1], PenStyle(data.type, data.color, data.size), RemotePath(data)),
         RemotePath(data)>>

\* variants of clearCanvas with one of its two assignments missing
clearCanvasKeepsHistory(st) == <<st[1], Blank, st[3]>>

clearCanvasKeepsRaster(st) == <<<<>>, st[2], st[3]>>

\* clearCanvas(): fill the raster white and reset the history ref.
\* st = <<history, raster, path>>
clearCanvas(st) == <<<<>>, Blank, st[3]>>

RECURSIVE ReplayAll(_, _)
ReplayAll(cv, hist) ==
  IF hist = <<>> THEN cv
  ELSE ReplayAll(drawRemoteStroke(cv, Head(hist)), Tail(hist))

\* redrawCanvas(): clearCanvas(), then replay drawingHistory.current
redrawCanvas(st) ==
  LET c == clearCanvas(st)
      cv == ReplayAll(<<c[2], c[3]>>, c[1])
  IN <<c[1], cv[1], cv[2]>>

\* handleUndo body: pop, then redrawCanvas
undoResult(st) == redrawCanvas(<<Front(st[1]), st[2], st[3]>>)

\* render(history): full replay from a blank background
Render(hist) == ReplayAll(<<Blank, <<>>>>, hist)[1]

(* ----------------------------- messages -------------------------------- *)
DrawMsg(u, data) == [type |-> "draw", userId |-> u, data |-> data]
ClearMsg(u) == [type |-> "clear", userId |-> u, data |-> [empty |-> TRUE]]

Subscribers == {r \in Replicas : subscription[r] = "subscribed"}

\* the channel hands a published message to every current subscriber
Fanout(s, msg) ==
  [a \in Senders |-> [b \in Replicas |->
     IF a = s /\ b \in Subscribers /\ (b # s \/ echoes)
       THEN Append(chan[a][b], msg) ELSE chan[a][b]]]

(* ------------------------------- Init ---------------------------------- *)
InitReplicas ==
  /\ userId = [r \in Replicas |-> IF r = "A" THEN "ua" ELSE "ub"]
  /\ isConnected = [r \in Replicas |-> FALSE]
  /\ isDrawing = [r \in Replicas |-> FALSE]
  /\ tool = [r \in Replicas |-> "pen"]
  /\ color = [r \in Replicas |-> "#000000"]
  /\ currentStroke = [r \in Replicas |-> <<>>]
  /\ drawingHistory = [r \in Replicas |-> <<>>]
  /\ surface = [r \in Replicas |-> Blank]
  /\ ctxPath = [r \in Replicas |-> <<>>]
  /\ subscription = [r \in Replicas |-> "connecting"]
  /\ pending = [r \in Replicas |-> <<>>]
  /\ chan = [a \in Senders |-> [b \in Replicas |-> <<>>]]
  /\ now = 0
  /\ gesture = [r \in Replicas |-> <<>>]
  /\ pressed = [r \in Replicas |-> FALSE]
  /\ onlineUsers = [r \in Replicas |-> <<>>]
  /\ heard = [r \in Replicas |-> <<>>]
  /\ torn = [r \in Replicas |-> <<>>]
  /\ unsubscribes = [r \in Replicas |-> 0]
  /\ nClears = 0 /\ nUserChanges = 0 /\ nToolbar = 0 /\ nForeign = 0

\* a session long enough for a second stroke to follow the first
LongSession == MaxGestures + 1

Init == InitReplicas /\ echoes \in BOOLEAN /\ gesturesLeft = LongSession

\* a short session on a channel that hands messages to the other
\* subscribers only
InitNoEcho == InitReplicas /\ echoes = FALSE /\ gesturesLeft = MaxGestures

\* the same channel, a long session
InitLong == InitReplicas /\ echoes = FALSE /\ gesturesLeft = LongSession

(* ------------------------ subscribe effect ----------------------------- *)
\* .then of channel.subscribe for the effect that is still mounted
SubscribeOk(r) ==
  /\ subscription[r] = "connecting"
  /\ subscription' = [subscription EXCEPT ![r] = "subscribed"]
  /\ isConnected' = [isConnected EXCEPT ![r] = TRUE]
  /\ UNCHANGED <<userId, effect, ui, pen, board, wire, env, budget>>

\* .catch of channel.subscribe: logs and toasts, no retry
SubscribeFail(r) ==
  /\ subscription[r] = "connecting"
  /\ subscription' = [subscription EXCEPT ![r] = "failed"]
  /\ UNCHANGED <<userId, isConnected, effect, ui, pen, board, wire, env, budget>>

\* the user prop changes id: the effect cleanup unsubscribes, the effect
\* runs again and subscribes a new channel handle with the new id
ChangeUser(r, u) ==
  /\ u # userId[r]
  /\ nUserChanges < MaxUserChanges
  /\ nUserChanges' = nUserChanges + 1
  /\ userId' = [userId EXCEPT ![r] = u]
  /\ subscription' = [subscription EXCEPT ![r] = "connecting"]
  /\ torn' = [torn EXCEPT ![r] = Append(@, subscription[r])]
  /\ unsubscribes' = [unsubscribes EXCEPT ![r] = @ + 1]
  /\ chan' = [a \in Senders |-> [chan[a] EXCEPT ![r] = <<>>]]
  /\ UNCHANGED <<isConnected, ui, pen, board, pending, heard, env>>
  /\ UNCHANGED <<gesturesLeft, nClears, nToolbar, nForeign>>

\* the outcome a settling subscribe() reports
Settled(ok) == IF ok THEN "subscribed" ELSE "failed"

\* variant of SubscribeLate without the isMounted check
SubscribeLateUnguarded(r, i, ok) ==
  /\ i \in DOMAIN torn[r]
  /\ torn[r][i] = "connecting"
  /\ torn' = [torn EXCEPT ![r][i] = Settled(ok)]
  /\ isConnected' = [isConnected EXCEPT ![r] = IF ok THEN TRUE ELSE @]
  /\ UNCHANGED <<userId, subscription, unsubscribes>>
  /\ UNCHANGED <<ui, pen, board, wire, env, budget>>

\* the subscribe() of an effect that was cleaned up settles (ok: fulfilled,
\* otherwise rejected): isMounted is false, .then and .catch return at once
SubscribeLate(r, i, ok) ==
  /\ i \in DOMAIN torn[r]
  /\ torn[r][i] = "connecting"
  /\ torn' = [torn EXCEPT ![r][i] = Settled(ok)]
  /\ UNCHANGED <<userId, isConnected, subscription, unsubscribes>>
  /\ UNCHANGED <<ui, pen, board, wire, env, budget>>

(* ----------------------------- presence -------------------------------- *)
\* membership lists the channel reports
Snapshots == {<<>>, <<"ua">>, <<"ua", "ub">>, <<"ub", "uc">>}

\* variant of onPresence that adds the reported users to the ones it holds
onPresenceMerges(r, users) ==
  /\ subscription[r] = "subscribed"
  /\ onlineUsers' = [onlineUsers EXCEPT ![r] =
        @ \o SelectSeq(users, LAMBDA u : \A i \in DOMAIN onlineUsers[r] : onlineUsers[r][i] # u)]
  /\ UNCHANGED <<conn, tool, color, pen, board, wire, env, budget>>

\* channel.onPresence handler: setOnlineUsers(users)
onPresence(r, users) ==
  /\ subscription[r] = "subscribed"
  /\ onlineUsers' = [onlineUsers EXCEPT ![r] = users]
  /\ UNCHANGED <<conn, tool, color, pen, board, wire, env, budget>>

\* the count the header shows
onlineCount(r) == Len(onlineUsers[r])

(* --------------------------- pointer input ----------------------------- *)
startDrawing(r, p) ==
  /\ isConnected[r]
  /\ gesturesLeft > 0
  /\ gesturesLeft' = gesturesLeft - 1
  /\ isDrawing' = [isDrawing EXCEPT ![r] = TRUE]
  /\ currentStroke' = [currentStroke EXCEPT ![r] = <<p>>]
  /\ ctxPath' = [ctxPath EXCEPT ![r] = <<p>>]
  /\ gesture' = [gesture EXCEPT ![r] = <<p>>]
  /\ pressed' = [pressed EXCEPT ![r] = TRUE]
  /\ UNCHANGED <<conn, ui, drawingHistory, surface, wire, env>>
  /\ UNCHANGED <<nClears, nUserChanges, nToolbar, nForeign>>

\* the style draw() sets on the context for the selected tool
localStyle(r) ==
  PenStyle(IF tool[r] = "pen" THEN "draw" ELSE "erase", color[r], InitialSize)

\* a pointer move reports a position other than the previous sample
draw(r, p) ==
  /\ isDrawing[r] /\ isConnected[r]
  /\ Len(gesture[r]) < MaxPoints
  /\ p # Last(gesture[r])
  /\ currentStroke' = [currentStroke EXCEPT ![r] = Append(@, p)]
  /\ gesture' = [gesture EXCEPT ![r] = Append(@, p)]
  /\ ctxPath' = [ctxPath EXCEPT ![r] = Append(@, p)]
  /\ surface' = [surface EXCEPT ![r] = CtxStroke(@, localStyle(r), Append(ctxPath[r], p))]
  /\ UNCHANGED <<conn, ui, isDrawing, pressed, drawingHistory, wire, env, budget>>

\* the DrawingData record stopDrawing builds
drawingData(r) ==
  [id |-> now,
   type |-> IF tool[r] = "pen" THEN "draw" ELSE "erase",
   points |-> currentStroke[r],
   color |-> color[r],
   size |-> InitialSize,
   timestamp |-> now]

\* variant of stopDrawing that does not look at the length of the stroke
stopDrawingCommitsEmpty(r) ==
  /\ isDrawing[r] /\ isConnected[r]
  /\ isDrawing' = [isDrawing EXCEPT ![r] = FALSE]
  /\ drawingHistory' = [drawingHistory EXCEPT ![r] = Append(@, drawingData(r))]
  /\ pending' = [pending EXCEPT ![r] = Append(@, DrawMsg(userId[r], drawingData(r)))]
  /\ pressed' = [pressed EXCEPT ![r] = FALSE]
  /\ UNCHANGED <<conn, ui, currentStroke, gesture, surface, ctxPath, chan, heard, env, budget>>

\* stopDrawing up to its await: commit and issue the publish
stopDrawing(r) ==
  /\ isDrawing[r] /\ isConnected[r] /\ Len(currentStroke[r]) # 0
  /\ isDrawing' = [isDrawing EXCEPT ![r] = FALSE]
  /\ drawingHistory' = [drawingHistory EXCEPT ![r] = Append(@, drawingData(r))]
  /\ pending' = [pending EXCEPT ![r] = Append(@, DrawMsg(userId[r], drawingData(r)))]
  /\ pressed' = [pressed EXCEPT ![r] = FALSE]
  /\ UNCHANGED <<conn, ui, currentStroke, gesture, surface, ctxPath, chan, heard, env, budget>>

\* stopDrawing when its guard fails: the handler returns at once
stopDrawingIgnored(r) ==
  /\ pressed[r]
  /\ ~(isDrawing[r] /\ isConnected[r] /\ Len(currentStroke[r]) # 0)
  /\ pressed' = [pressed EXCEPT ![r] = FALSE]
  /\ UNCHANGED <<conn, ui, isDrawing, currentStroke, gesture, board, wire, env, budget>>

(* ------------------------------ publish -------------------------------- *)
\* what runs after the await once the promise is fulfilled
afterPublish(r, msg) ==
  IF msg.type = "draw" THEN [currentStroke EXCEPT ![r] = <<>>] ELSE currentStroke

\* a publish succeeds: the message goes to the current subscribers, the
\* awaiting handler resumes
PublishOk(r, i) ==
  /\ i \in DOMAIN pending[r]
  /\ chan' = Fanout(r, pending[r][i])
  /\ pending' = [pending EXCEPT ![r] = RemoveAt(@, i)]
  /\ currentStroke' = afterPublish(r, pending[r][i])
  /\ UNCHANGED <<conn, ui, isDrawing, gesture, pressed, board, heard, env, budget>>

\* variant of PublishFail that takes the stroke back out of the history
PublishFailRollsBack(r, i, rejects) ==
  /\ i \in DOMAIN pending[r]
  /\ pending' = [pending EXCEPT ![r] = RemoveAt(@, i)]
  /\ currentStroke' = IF rejects THEN currentStroke ELSE afterPublish(r, pending[r][i])
  /\ drawingHistory' = [drawingHistory EXCEPT ![r] =
        IF pending[r][i].type = "draw" /\ @ # <<>> THEN Front(@) ELSE @]
  /\ UNCHANGED <<conn, ui, isDrawing, gesture, pressed, surface, ctxPath, chan, heard, env, budget>>

\* a publish fails: nothing is sent; the promise either rejects (the rest of
\* the handler is skipped) or is fulfilled with a failure result
PublishFail(r, i, rejects) ==
  /\ i \in DOMAIN pending[r]
  /\ pending' = [pending EXCEPT ![r] = RemoveAt(@, i)]
  /\ currentStroke' = IF rejects THEN currentStroke ELSE afterPublish(r, pending[r][i])
  /\ UNCHANGED <<conn, ui, isDrawing, gesture, pressed, board, chan, heard, env, budget>>

(* -------------------------- outside session --------------------------- *)
\* a session of the room that is not one of Replicas runs the same component
\* for one of OutsideUsers; its messages may also come without points
OutsideUsers == {"ua", "uc"}
Diagonal == <<[x |-> 0, y |-> 0], [x |-> 10, y |-> 10]>>

OutsideStroke(pts) ==
  [id |-> now, type |-> "draw", points |-> pts, color |-> "#000000",
   size |-> InitialSize, timestamp |-> now]

OutsideMsgs ==
  {DrawMsg(u, OutsideStroke(pts)) : u \in OutsideUsers, pts \in {<<>>, Diagonal}}
    \cup {ClearMsg("uc")}

PublishOutside(msg) ==
  /\ nForeign < MaxForeign
  /\ nForeign' = nForeign + 1
  /\ chan' = Fanout(Outside, msg)
  /\ UNCHANGED <<conn, ui, pen, board, pending, heard, env>>
  /\ UNCHANGED <<gesturesLeft, nClears, nUserChanges, nToolbar>>

(* ------------------------- inbound messages ---------------------------- *)
\* variant of onMessage that paints a draw message of any author
onMessageAnyAuthor(r, msg) ==
  LET st == <<drawingHistory[r], surface[r], ctxPath[r]>>
  IN IF msg.type = "draw"
       THEN LET cv == drawRemoteStroke(<<st[2], st[3]>>, msg.data)
            IN <<st[1], cv[1], cv[2]>>
     ELSE IF msg.type = "clear" THEN clearCanvas(st)
     ELSE st

\* channel.onMessage handler: the state <<history, raster, path>> it leaves
onMessage(r, msg) ==
  LET st == <<drawingHistory[r], surface[r], ctxPath[r]>>
  IN IF msg.type = "draw" /\ msg.userId # userId[r]
       THEN LET cv == drawRemoteStroke(<<st[2], st[3]>>, msg.data)
            IN <<st[1], cv[1], cv[2]>>
     ELSE IF msg.type = "clear" THEN clearCanvas(st)
     ELSE st

Deliver(s, r) ==
  /\ chan[s][r] # <<>>
  /\ chan' = [chan EXCEPT ![s][r] = Tail(@)]
  /\ heard' = IF s = Outside THEN [heard EXCEPT ![r] = Append(@, Head(chan[s][r]))]
                            ELSE heard
  /\ LET st == onMessage(r, Head(chan[s][r]))
     IN /\ drawingHistory' = [drawingHistory EXCEPT ![r] = st[1]]
        /\ surface' = [surface EXCEPT ![r] = st[2]]
        /\ ctxPath' = [ctxPath EXCEPT ![r] = st[3]]
  /\ UNCHANGED <<conn, ui, pen, pending, env, budget>>

(* ---------------------------- clear / undo ----------------------------- *)
handleClear(r) ==
  /\ isConnected[r]
  /\ nClears < MaxClears
  /\ nClears' = nClears + 1
  /\ LET st == clearCanvas(<<drawingHistory[r], surface[r], ctxPath[r]>>)
     IN /\ drawingHistory' = [drawingHistory EXCEPT ![r] = st[1]]
        /\ surface' = [surface EXCEPT ![r] = st[2]]
        /\ ctxPath' = [ctxPath EXCEPT ![r] = st[3]]
  /\ pending' = [pending EXCEPT ![r] = Append(@, ClearMsg(userId[r]))]
  /\ UNCHANGED <<conn, ui, pen, chan, heard, env>>
  /\ UNCHANGED <<gesturesLeft, nUserChanges, nToolbar, nForeign>>

\* variant of handleUndo that also publishes a retraction
handleUndoBroadcast(r) ==
  /\ isConnected[r]
  /\ Len(drawingHistory[r]) # 0
  /\ LET st == undoResult(<<drawingHistory[r], surface[r], ctxPath[r]>>)
     IN /\ drawingHistory' = [drawingHistory EXCEPT ![r] = st[1]]
        /\ surface' = [surface EXCEPT ![r] = st[2]]
        /\ ctxPath' = [ctxPath EXCEPT ![r] = st[3]]
  /\ pending' = [pending EXCEPT ![r] = Append(@, [type |-> "undo", userId |-> userId[r],
                                                 data |-> [empty |-> TRUE]])]
  /\ UNCHANGED <<conn, ui, pen, chan, heard, env, budget>>

\* the Undo button is enabled while connected and the history is not empty
handleUndo(r) ==
  /\ isConnected[r]
  /\ Len(drawingHistory[r]) # 0
  /\ LET st == undoResult(<<drawingHistory[r], surface[r], ctxPath[r]>>)
     IN /\ drawingHistory' = [drawingHistory EXCEPT ![r] = st[1]]
        /\ surface' = [surface EXCEPT ![r] = st[2]]
        /\ ctxPath' = [ctxPath EXCEPT ![r] = st[3]]
  /\ UNCHANGED <<conn, ui, pen, wire, env, budget>>

(* ------------------------------ toolbar -------------------------------- *)
setTool(r, t) ==
  /\ t # tool[r]
  /\ nToolbar < MaxToolbar
  /\ nToolbar' = nToolbar + 1
  /\ tool' = [tool EXCEPT ![r] = t]
  /\ UNCHANGED <<conn, color, onlineUsers, pen, board, wire, env>>
  /\ UNCHANGED <<gesturesLeft, nClears, nUserChanges, nForeign>>

setColor(r, c) ==
  /\ c # color[r]
  /\ nToolbar < MaxToolbar
  /\ nToolbar' = nToolbar + 1
  /\ color' = [color EXCEPT ![r] = c]
  /\ UNCHANGED <<conn, tool, onlineUsers, pen, board, wire, env>>
  /\ UNCHANGED <<gesturesLeft, nClears, nUserChanges, nForeign>>

(* ------------------------------- clock --------------------------------- *)
Tick ==
  /\ now < MaxClock
  /\ now' = now + 1
  /\ UNCHANGED <<conn, ui, pen, board, wire, echoes, budget>>

(* --------------------------- specifications ---------------------------- *)
Actors == {"A"}
InFlight == 1..(LongSession + MaxClears)
Effects == 1..MaxUserChanges

\* drawing, publishing, delivery, clear and undo on a connected board where
\* subscribes and publishes succeed: the user of replica A acts, every
\* replica subscribes and receives
NextPeers ==
  \/ \E r \in Replicas : SubscribeOk(r)
  \/ \E r \in Actors, p \in Points : startDrawing(r, p)
  \/ \E r \in Actors, p \in Points : draw(r, p)
  \/ \E r \in Actors : stopDrawing(r)
  \/ \E r \in Actors, i \in InFlight : PublishOk(r, i)
  \/ \E s \in Actors, r \in Replicas : Deliver(s, r)
  \/ \E r \in Actors : handleClear(r)
  \/ \E r \in Actors : handleUndo(r)
  \/ \E r \in Actors, t \in Tools : setTool(r, t)
  \/ \E r \in Actors, c \in Palette : setColor(r, c)

SpecPeers == InitLong /\ [][NextPeers]_vars

\* connection life cycle: subscribe results and changes of the user prop,
\* with the pointer input they gate
NextConn ==
  \/ \E r \in Replicas : SubscribeOk(r)
  \/ \E r \in Replicas : SubscribeFail(r)
  \/ \E r \in Actors, u \in Users : ChangeUser(r, u)
  \/ \E r \in Actors, p \in Points : startDrawing(r, p)
  \/ \E r \in Actors, p \in Points : draw(r, p)
  \/ \E r \in Actors : stopDrawing(r)
  \/ \E r \in Actors, i \in InFlight : PublishOk(r, i)
  \/ \E s \in Actors, r \in Replicas : Deliver(s, r)

SpecConn == InitLong /\ [][NextConn]_vars

\* an unreliable send path: every publish of a stroke or of a clear may fail
NextLossy ==
  \/ \E r \in Replicas : SubscribeOk(r)
  \/ \E r \in Actors, p \in Points : startDrawing(r, p)
  \/ \E r \in Actors, p \in Points : draw(r, p)
  \/ \E r \in Actors : stopDrawing(r)
  \/ \E r \in Actors, i \in InFlight : PublishOk(r, i)
  \/ \E r \in Actors, i \in InFlight, b \in BOOLEAN : PublishFail(r, i, b)
  \/ \E s \in Actors, r \in Replicas : Deliver(s, r)
  \/ \E r \in Actors : handleClear(r)

SpecLossy == InitNoEcho /\ [][NextLossy]_vars

\* a board shared by two drawing users: both replicas draw, clear and undo;
\* the channel hands messages to the other subscribers
NextShared ==
  \/ \E r \in Replicas : SubscribeOk(r)
  \/ \E r \in Replicas, p \in Points : startDrawing(r, p)
  \/ \E r \in Replicas, p \in Points : draw(r, p)
  \/ \E r \in Replicas : stopDrawing(r)
  \/ \E r \in Replicas, i \in InFlight : PublishOk(r, i)
  \/ \E s \in Replicas, r \in Replicas : Deliver(s, r)
  \/ \E r \in Replicas : handleClear(r)
  \/ \E r \in Replicas : handleUndo(r)

SpecShared == InitNoEcho /\ [][NextShared]_vars

\* pointer presses and releases racing with the completion of publishes
NextRelease ==
  \/ \E r \in Replicas : SubscribeOk(r)
  \/ \E r \in Actors, p \in Points : startDrawing(r, p)
  \/ \E r \in Actors, p \in Points : draw(r, p)
  \/ \E r \in Actors : stopDrawing(r)
  \/ \E r \in Actors : stopDrawingIgnored(r)
  \/ \E r \in Actors, i \in InFlight : PublishOk(r, i)
  \/ \E s \in Actors, r \in Replicas : Deliver(s, r)

SpecRelease == InitLong /\ [][NextRelease]_vars

\* commits under a clock that may or may not advance between them
NextClock ==
  \/ \E r \in Actors : SubscribeOk(r)
  \/ \E r \in Actors, p \in Points : startDrawing(r, p)
  \/ \E r \in Actors, p \in Points : draw(r, p)
  \/ \E r \in Actors : stopDrawing(r)
  \/ \E r \in Actors, i \in InFlight : PublishOk(r, i)
  \/ Tick

SpecClock == InitLong /\ [][NextClock]_vars

\* a channel that hands every message to its own sender too
InitEcho == InitReplicas /\ echoes = TRUE /\ gesturesLeft = MaxGestures

NextEcho ==
  \/ \E r \in Replicas : SubscribeOk(r)
  \/ \E r \in Actors, p \in Points : startDrawing(r, p)
  \/ \E r \in Actors, p \in Points : draw(r, p)
  \/ \E r \in Actors : stopDrawing(r)
  \/ \E r \in Actors, i \in InFlight : PublishOk(r, i)
  \/ \E s \in Actors, r \in Replicas : Deliver(s, r)
  \/ \E r \in Actors : handleClear(r)

SpecEcho == InitEcho /\ [][NextEcho]_vars

\* two replicas whose users do nothing: they subscribe and handle what the
\* outside session publishes
NextAudience ==
  \/ \E r \in Replicas : SubscribeOk(r)
  \/ \E msg \in OutsideMsgs : PublishOutside(msg)
  \/ \E r \in Replicas : Deliver(Outside, r)

SpecAudience == InitNoEcho /\ [][NextAudience]_vars

\* the user of replica A draws while the replicas handle what the outside
\* session publishes
NextInbound ==
  \/ \E r \in Actors : SubscribeOk(r)
  \/ \E r \in Actors, p \in Points : startDrawing(r, p)
  \/ \E r \in Actors, p \in Points : draw(r, p)
  \/ \E r \in Actors : stopDrawing(r)
  \/ \E msg \in OutsideMsgs : PublishOutside(msg)
  \/ \E r \in Actors : Deliver(Outside, r)

SpecInbound == InitNoEcho /\ [][NextInbound]_vars

\* effects torn down and re-run while their subscribe() is still unsettled
NextTeardown ==
  \/ \E r \in Replicas : SubscribeOk(r)
  \/ \E r \in Replicas : SubscribeFail(r)
  \/ \E r \in Replicas, u \in Users : ChangeUser(r, u)
  \/ \E r \in Replicas, i \in Effects, ok \in BOOLEAN : SubscribeLate(r, i, ok)
  \/ \E r \in Actors, p \in Points : startDrawing(r, p)
  \/ \E r \in Actors, p \in Points : draw(r, p)
  \/ \E r \in Actors : stopDrawing(r)

SpecTeardown == InitNoEcho /\ [][NextTeardown]_vars

\* presence snapshots arriving while the user of replica A draws, clears and
\* undoes
NextPresence ==
  \/ \E r \in Replicas : SubscribeOk(r)
  \/ \E r \in Replicas : SubscribeFail(r)
  \/ \E r \in Replicas, users \in Snapshots : onPresence(r, users)
  \/ \E r \in Actors, p \in Points : startDrawing(r, p)
  \/ \E r \in Actors, p \in Points : draw(r, p)
  \/ \E r \in Actors : stopDrawing(r)
  \/ \E r \in Actors : handleClear(r)
  \/ \E r \in Actors : handleUndo(r)

SpecPresence == InitNoEcho /\ [][NextPresence]_vars

Next ==
  \/ NextPeers
  \/ NextConn
  \/ NextLossy
  \/ NextShared
  \/ NextRelease
  \/ NextClock
  \/ NextEcho
  \/ NextAudience
  \/ NextInbound
  \/ NextTeardown
  \/ NextPresence

Spec == Init /\ [][Next]_vars

(* ------------------------------ claims --------------------------------- *)
Others(r) == Replicas \ {r}

\* C1: one undo() on a history of length n > 0 leaves exactly the previous
\* history without its last entry (length n-1, same order).
C1_UndoRemovesOnlyLast ==
  [][\A r \in Replicas :
       handleUndo(r) => drawingHistory'[r] = Front(drawingHistory[r])]_vars

\* the head of chan[s][r] is a draw message of another author with points
RemoteDrawAtHead(s, r) ==
  /\ chan[s][r] # <<>>
  /\ Head(chan[s][r]).type = "draw"
  /\ Head(chan[s][r]).userId # userId[r]
  /\ Len(Head(chan[s][r]).data.points) > 0

\* C2: receiving a draw message of a different author with a non-empty point
\* list appends that stroke, unchanged, to the end of the receiver's history.
C2_RemoteDrawAppended ==
  [][\A s \in Replicas, r \in Replicas :
       RemoteDrawAtHead(s, r) /\ Deliver(s, r)
         => drawingHistory'[r] = Append(drawingHistory[r], Head(chan[s][r]).data)]_vars

\* C3: whenever no gesture is in progress on a replica, its surface equals
\* the full replay of its local history from a blank background.
C3_SurfaceIsReplay ==
  \A r \in Replicas : ~isDrawing[r] => surface[r] = Render(drawingHistory[r])

PointerInput(r) ==
  \/ \E p \in Points : startDrawing(r, p)
  \/ \E p \in Points : draw(r, p)
  \/ stopDrawing(r)

C5_InputOnlyWhileConnected ==
  [][\A r \in Replicas :
       subscription[r] # "subscribed" /\ PointerInput(r) =>
         /\ drawingHistory'[r] = drawingHistory[r]
         /\ surface'[r] = surface[r]
         /\ pending'[r] = pending[r]
         /\ currentStroke'[r] = currentStroke[r]]_vars

\* C6: a local clear() on a connected replica leaves its history empty and
\* its surface blank, and issues exactly one publish, of a clear message.
C6_ClearEmptiesAndPublishes ==
  [][\A r \in Replicas :
       handleClear(r) =>
         /\ drawingHistory'[r] = <<>>
         /\ surface'[r] = Blank
         /\ pending'[r] = Append(pending[r], ClearMsg(userId[r]))
         /\ \A q \in Others(r) : pending'[q] = pending[q]
         /\ chan' = chan]_vars

\* C6 witness: A committed a stroke and then cleared: both publishes are in
\* flight, the board is empty.
C6_Witness ==
  /\ Len(pending["A"]) = 2
  /\ pending["A"][1].type = "draw" /\ Len(pending["A"][1].data.points) = 2
  /\ pending["A"][2].type = "clear"
  /\ drawingHistory["A"] = <<>> /\ surface["A"] = Blank

\* C7: right after a clear message is handled the receiver's history is empty
\* and its surface blank, and an empty board only stops being empty by a
\* stroke drawn or committed there or a draw message delivered there.
ClearAtHead(s, r) == chan[s][r] # <<>> /\ Head(chan[s][r]).type = "clear"

BoardEmpty(r) == drawingHistory[r] = <<>> /\ surface[r] = Blank

C7_RemoteClearEmpties ==
  [][/\ \A s \in Replicas, r \in Replicas :
          ClearAtHead(s, r) /\ Deliver(s, r) => BoardEmpty(r)'
     /\ \A r \in Replicas :
          BoardEmpty(r) /\ ~BoardEmpty(r)' =>
            \/ \E p \in Points : draw(r, p)
            \/ stopDrawing(r)
            \/ \E s \in Replicas : RemoteDrawAtHead(s, r) /\ Deliver(s, r)]_vars

\* C7 witness: B holds a stroke of its own and shows one, and A's clear is
\* the next message B handles.
C7_Witness ==
  /\ ClearAtHead("A", "B")
  /\ Len(drawingHistory["B"]) >= 1
  /\ surface["B"] # Blank

\* C8: the point list of a committed stroke is exactly the sequence of
\* pointer samples of its gesture.
C8_PointsAreGestureSamples ==
  [][\A r \in Replicas :
       stopDrawing(r) => Last(drawingHistory'[r]).points = gesture[r]]_vars

\* C9: after a subscribe attempt that ended in a ConnectError the replica is
\* not in the Connected state.
C9_FailedSubscribeNotConnected ==
  \A r \in Replicas : subscription[r] = "failed" => ~isConnected[r]

\* C10: a failed publish rolls nothing back and is not retried: history and
\* surface are unchanged, nothing is sent, the replica stays able to take
\* pointer input, and a publish is only ever issued by a new commit or clear.
C10_FailedPublishKeepsLocalState ==
  [][/\ \A r \in Replicas, i \in InFlight, b \in BOOLEAN :
          PublishFail(r, i, b) =>
            /\ drawingHistory' = drawingHistory
            /\ surface' = surface
            /\ chan' = chan
            /\ pending'[r] = RemoveAt(pending[r], i)
            /\ isConnected' = isConnected /\ isDrawing' = isDrawing
     /\ \A r \in Replicas :
          Len(pending'[r]) > Len(pending[r]) => stopDrawing(r) \/ handleClear(r)]_vars

\* C10 witness: the publish of A's last stroke was rejected (its points were
\* never reset), nothing is in flight, the stroke is still the last entry.
C10_Witness ==
  /\ ~isDrawing["A"] /\ pending["A"] = <<>>
  /\ Len(currentStroke["A"]) = 2
  /\ drawingHistory["A"] # <<>>
  /\ Last(drawingHistory["A"]).points = currentStroke["A"]
  /\ surface["A"] # Blank

\* C11: two replicas whose users perform no local operation and that have
\* handled the identical ordered sequence of draw and clear messages hold
\* identical histories and show identical surfaces, after each message.
C11_SameMessagesSameBoard ==
  \A a \in Replicas, b \in Replicas :
    heard[a] = heard[b] =>
      /\ drawingHistory[a] = drawingHistory[b]
      /\ surface[a] = surface[b]

\* C12: the participant list and the reported online count of a replica are
\* those of the latest presence snapshot handed to it: every onPresence call
\* replaces the list by the snapshot, and nothing else changes the list.
C12_PresenceIsLatestSnapshot ==
  [][\A r \in Replicas :
       /\ \A users \in Snapshots :
            onPresence(r, users) =>
              /\ onlineUsers'[r] = users
              /\ onlineCount(r)' = Len(users)
       /\ onlineUsers'[r] # onlineUsers[r] =>
            \E users \in Snapshots : onPresence(r, users)]_vars

\* C12 witness: both replicas were handed snapshots, the shorter one at A
\* after A committed a stroke.
C12_Witness ==
  /\ onlineUsers["A"] = <<"ua">>
  /\ onlineUsers["B"] = <<"ub", "uc">>
  /\ drawingHistory["A"] # <<>>

\* C13: no two strokes committed by the same replica carry the same id,
\* whatever the clock reads at the two commits.
C13_StrokeIdsUnique ==
  \A r \in Replicas : \A i \in DOMAIN drawingHistory[r], j \in DOMAIN drawingHistory[r] :
    i # j => drawingHistory[r][i].id # drawingHistory[r][j].id

\* C14: every stroke in a replica's history and every draw message a replica
\* publishes has at least one point; a stopDrawing that finds the current
\* stroke empty commits nothing and publishes nothing.
NonEmptyDraws(msgs) ==
  \A i \in DOMAIN msgs : msgs[i].type = "draw" => Len(msgs[i].data.points) > 0

C14_CommittedStrokesHavePoints ==
  [][\A r \in Replicas :
       /\ \A i \in DOMAIN drawingHistory'[r] : Len(drawingHistory'[r][i].points) > 0
       /\ NonEmptyDraws(pending'[r])
       /\ \A q \in Replicas : NonEmptyDraws(chan'[r][q])
       /\ stopDrawingIgnored(r) =>
            /\ drawingHistory'[r] = drawingHistory[r]
            /\ pending' = pending /\ chan' = chan]_vars

\* C14 witness: the release of A's second gesture found the current stroke
\* empty and was ignored; only the first gesture is in the history.
C14_Witness ==
  /\ isDrawing["A"] /\ ~pressed["A"]
  /\ currentStroke["A"] = <<>>
  /\ Len(drawingHistory["A"]) = 1
  /\ pending["A"] = <<>>

\* the head of chan[s][r] is a draw message without points
EmptyDrawAtHead(s, r) ==
  /\ chan[s][r] # <<>>
  /\ Head(chan[s][r]).type = "draw"
  /\ Len(Head(chan[s][r]).data.points) = 0

\* C15: a draw message with an empty point list is dropped: handling it
\* leaves the receiver's history, surface and canvas path unchanged and
\* publishes nothing, and the messages queued behind it stay to be handled.
C15_EmptyDrawDropped ==
  [][\A s \in Senders, r \in Replicas :
       EmptyDrawAtHead(s, r) /\ Deliver(s, r) =>
         /\ drawingHistory' = drawingHistory
         /\ surface' = surface
         /\ ctxPath' = ctxPath
         /\ pending' = pending
         /\ chan' = [chan EXCEPT ![s][r] = Tail(@)]]_vars

\* C15 witness: A, holding a stroke of its own, dropped a draw message without
\* points and then painted the well-formed one that followed it.
C15_Witness ==
  /\ Len(heard["A"]) = 2
  /\ heard["A"][1].type = "draw" /\ heard["A"][1].data.points = <<>>
  /\ heard["A"][2].type = "draw" /\ heard["A"][2].userId = "uc"
  /\ heard["A"][2].data.points # <<>>
  /\ drawingHistory["A"] # <<>>
  /\ surface["A"] # Blank

\* the head of chan[s][r] is a draw message
DrawAtHead(s, r) == chan[s][r] # <<>> /\ Head(chan[s][r]).type = "draw"

\* C16: handling a draw message publishes nothing, and a draw message that
\* carries the receiver's own user id leaves the receiver's history and
\* surface unchanged.
C16_OwnDrawNotReapplied ==
  [][\A s \in Senders, r \in Replicas :
       DrawAtHead(s, r) /\ Deliver(s, r) =>
         /\ pending' = pending
         /\ chan' = [chan EXCEPT ![s][r] = Tail(@)]
         /\ Head(chan[s][r]).userId = userId[r] =>
              /\ drawingHistory'[r] = drawingHistory[r]
              /\ surface'[r] = surface[r]]_vars

\* C16 witness: A committed a two-point stroke and cleared its board; both
\* publishes completed and A has handled the echo of each.
C16_Witness ==
  /\ echoes
  /\ ~isDrawing["A"] /\ Len(gesture["A"]) = 2
  /\ nClears = 1
  /\ pending["A"] = <<>>
  /\ chan["A"]["A"] = <<>> /\ chan["A"]["B"] # <<>>
  /\ BoardEmpty("A")

\* the pointer of r is released (or leaves the canvas): stopDrawing is called
Release(r) == stopDrawing(r) \/ stopDrawingIgnored(r)

\* C17: the release of a gesture with at least one sample on a connected
\* replica appends exactly one stroke to the history and issues exactly one
\* publish, of that stroke; and a draw message is only ever issued for the
\* stroke appended by the same step.
C17_GestureCommittedAndPublishedOnce ==
  [][\A r \in Replicas :
       /\ Release(r) /\ isConnected[r] /\ Len(gesture[r]) >= 1 =>
            /\ Len(drawingHistory'[r]) = Len(drawingHistory[r]) + 1
            /\ pending'[r] = Append(pending[r], DrawMsg(userId[r], Last(drawingHistory'[r])))
       /\ Len(pending'[r]) > Len(pending[r]) /\ Last(pending'[r]).type = "draw" =>
            drawingHistory'[r] = Append(drawingHistory[r], Last(pending'[r]).data)]_vars

\* the head of chan[s][r] is a clear message carrying r's own user id
OwnClearAtHead(s, r) == ClearAtHead(s, r) /\ Head(chan[s][r]).userId = userId[r]

\* C18: on a channel that echoes, handling the echo of one's own clear
\* changes neither the history nor the surface, so a stroke committed after
\* the local clear survives it.
C18_OwnClearEchoKeepsBoard ==
  [][\A s \in Senders, r \in Replicas :
       OwnClearAtHead(s, r) /\ Deliver(s, r) =>
         /\ drawingHistory'[r] = drawingHistory[r]
         /\ surface'[r] = surface[r]]_vars

\* C19: every release ends the gesture: a stopDrawing call made while
\* isDrawing is true leaves isDrawing false, however the completion of an
\* earlier publish interleaves; so a pointer move is only ever drawn while
\* the pointer is pressed.
C19_ReleaseEndsGesture ==
  [][\A r \in Replicas :
       /\ isDrawing[r] /\ Release(r) => ~isDrawing'[r]
       /\ \A p \in Points : draw(r, p) => pressed[r]]_vars

\* C20: a subscribe result that arrives after its effect was cleaned up
\* changes nothing of the replica (a late success does not connect it, a
\* late failure is not surfaced), and the channel of every cleaned-up effect
\* has been unsubscribed exactly once.
C20_LateSubscribeResultIgnored ==
  [][\A r \in Replicas :
       /\ \A i \in Effects, ok \in BOOLEAN :
            SubscribeLate(r, i, ok) =>
              /\ isConnected' = isConnected
              /\ subscription' = subscription
              /\ unsubscribes' = unsubscribes
              /\ UNCHANGED <<userId, ui, pen, board, wire>>
       /\ unsubscribes'[r] = Len(torn'[r])
       /\ unsubscribes'[r] # unsubscribes[r] => \E u \in Users : ChangeUser(r, u)]_vars

\* C20 witness: the subscribe of A's first effect was fulfilled after the
\* cleanup and the subscribe of its second effect failed: A is not connected.
C20_Witness ==
  /\ torn["A"] = <<"subscribed">>
  /\ unsubscribes["A"] = 1
  /\ subscription["A"] = "failed"
  /\ ~isConnected["A"]
====
